---- MODULE Spec2Model ----
(***************************************************************************)
(* Model of the media organizer: the Archimedius engine object             *)
(* (archimedius.py), the organize / process-selected / analyze workers of  *)
(* the front end that drives it (archimedius_gui.py) and the synchronous   *)
(* executor MediaOrganizer.organize_files (media_organizer.py).            *)
(***************************************************************************)
EXTENDS Integers, Sequences, FiniteSets, TLC

(***************************************************************************)
(* Engine configuration: archimedius.py                                    *)
(***************************************************************************)

\* The categories that own a template (keys of defaults.DEFAULT_TEMPLATES).
MediaTypes == {"audio", "video", "image", "ebook"}

\* Python's None for an omitted media_type argument.
None == "<None>"

\* media_type arguments tried on set_template / get_template: the four
\* categories, the classifier's "unknown", an unregistered name, the empty
\* string and the omitted argument.
MediaTypeArgs == MediaTypes \cup {"unknown", "not-a-real-type", "", None}

DEFAULT_TEMPLATES ==
    [mt \in MediaTypes |->
        CASE mt = "audio" -> "{creation_year}/{genre}/{filename}"
          [] mt = "video" -> "{creation_year}/{filename}"
          [] mt = "image" -> "{creation_year}/{filename}"
          [] mt = "ebook" -> "{author}/{title}/{filename}"]

\* Template strings a caller sets.
TemplateArgs == {"{genre}/{filename}", "Fallback/{filename}"}

\* Mode strings a caller passes to set_operation_mode.
ModeArgs == {"copy", "move", "delete", "simulate", ""}

(***************************************************************************)
(* Bounds of the model                                                     *)
(***************************************************************************)

\* Matching media files under the source root, in the order the walk yields them.
NumFiles == 2
\* Executor runs (organize, process-selected, organize_files) started in one behaviour.
MaxRuns == 2
\* Analyze (preview) passes started in one behaviour.
MaxAnalyze == 1

Files == 1..NumFiles
Runs == 1..MaxRuns
Analyzers == 1..MaxAnalyze

FileNames == <<"a.mp3", "b.flac", "c.mp4", "d.jpg", "e.epub">>
\* str(file_path) of the i-th file of the walk.
PathOf(f) == FileNames[f]

\* The current_file value of the terminal progress call.
Complete == "Complete"

VARIABLES
    impl,             \* which program runs: "gui" (archimedius_gui.py) or "legacy" (media_organizer.py)
    templates,        \* Archimedius.templates: category -> template
    template,         \* Archimedius.template: the legacy default template
    operation_mode,   \* Archimedius.operation_mode
    call,             \* the last engine API call and its outcome
    stop_requested,   \* organizer.stop_requested
    is_running,       \* organizer.is_running
    files_processed,  \* organizer.files_processed
    total_files,      \* organizer.total_files (written by find_media_files only)
    buttons,          \* widget states: start (Copy All / Move All), stop, preview (preview button frame)
    processing_selected_files,  \* ArchimediusGUI.processing_selected_files
    preview_tree,     \* rows of the preview Treeview: indexes into preview_files
    preview_files,    \* ArchimediusGUI.preview_files: per row the source file and its selected flag
    afterq,           \* callbacks posted with root.after(0, ...) that the main loop has yet to
                      \* run, in order. A per-file _update_progress callback sets display
                      \* variables only (progress_var, status_var, file_var): it is recorded
                      \* in progress when it is posted and takes no place in afterq.
    runs,             \* the executor worker threads: position and locals of each
    nruns,            \* executor workers started so far
    analyzers,        \* the analyze (preview) worker threads
    nanalyzers,       \* analyze workers started so far
    src,              \* files present at their source path
    dst,              \* files present at their destination path
    progress,         \* per run, the onProgress calls it has issued, in order
    attempts,         \* per run, the per-file attempts it has made, in order
    lib               \* the library call under study (MediaFile, scanner, preview filter):
                      \* its arguments, its position and its results

engineVars == <<templates, template, operation_mode, call>>
flagVars == <<stop_requested, is_running, files_processed, total_files>>
guiVars == <<buttons, processing_selected_files, preview_tree, preview_files>>
threadVars == <<runs, nruns, analyzers, nanalyzers>>
fsVars == <<src, dst>>
logVars == <<progress, attempts>>
vars == <<impl, engineVars, flagVars, guiVars, afterq, threadVars, fsVars, logVars, lib>>
nonEngineVars == <<impl, flagVars, guiVars, afterq, threadVars, fsVars, logVars, lib>>
\* Everything but the library call.
programVars == <<impl, engineVars, flagVars, guiVars, afterq, threadVars, fsVars, logVars>>

NoCall == [op |-> "none", arg |-> "", media_type |-> "", raised |-> FALSE, ret |-> ""]

\* Python truthiness of a media_type argument: None and "" are falsy.
Truthy(media_type) == media_type # None /\ media_type # ""

\* Archimedius.set_template, as a function of the old (templates, template).
SetTemplateKnown(media_type) == Truthy(media_type) /\ media_type \in DOMAIN templates

\* set_template that refreshes the audio template on every call.
TemplatesAfterSetAlsoAudio(t, media_type) ==
    IF SetTemplateKnown(media_type)
        THEN [templates EXCEPT ![media_type] = t, !["audio"] = t]
        ELSE [templates EXCEPT !["audio"] = t]

TemplatesAfterSet(t, media_type) ==
    IF SetTemplateKnown(media_type)
        THEN [templates EXCEPT ![media_type] = t]
        ELSE [templates EXCEPT !["audio"] = t]

\* set_template whose else branch forgets the legacy default template.
TemplateAfterSetKeepsDefault(t, media_type) ==
    IF media_type = "audio" THEN t ELSE template

TemplateAfterSet(t, media_type) ==
    IF SetTemplateKnown(media_type)
        THEN IF media_type = "audio" THEN t ELSE template
        ELSE t

\* get_template that falls back to the built-in audio default.
GetTemplateBuiltinDefault(media_type) ==
    IF media_type \in DOMAIN templates THEN templates[media_type]
                                       ELSE DEFAULT_TEMPLATES["audio"]

\* Archimedius.get_template: dict.get with the audio template as default.
GetTemplate(media_type) ==
    IF media_type \in DOMAIN templates THEN templates[media_type] ELSE templates["audio"]

\* A membership test that also lets through the "simulate" of defaults.py.
ModeAcceptedSimulate(mode) == mode \in {"copy", "move", "simulate"}

\* Archimedius.set_operation_mode: the membership test that guards the assignment.
ModeAccepted(mode) == mode \in {"copy", "move"}

\* Archimedius.set_operation_mode: the value of operation_mode after the call.
OperationModeAfterSet(mode) == IF ModeAccepted(mode) THEN mode ELSE operation_mode

InitEngine ==
    /\ templates = DEFAULT_TEMPLATES
    /\ template = DEFAULT_TEMPLATES["audio"]
    /\ operation_mode = "copy"
    /\ call = NoCall

set_template(t, media_type) ==
    /\ templates' = TemplatesAfterSet(t, media_type)
    /\ template' = TemplateAfterSet(t, media_type)
    /\ call' = [op |-> "set_template", arg |-> t, media_type |-> media_type,
                raised |-> FALSE, ret |-> ""]
    /\ UNCHANGED operation_mode

get_template(media_type) ==
    /\ call' = [op |-> "get_template", arg |-> "", media_type |-> media_type,
                raised |-> FALSE, ret |-> GetTemplate(media_type)]
    /\ UNCHANGED <<templates, template, operation_mode>>

\* raise ValueError when the mode is not accepted, assign it otherwise.
set_operation_mode(mode) ==
    /\ operation_mode' = OperationModeAfterSet(mode)
    /\ call' = [op |-> "set_operation_mode", arg |-> mode, media_type |-> "",
                raised |-> ~ModeAccepted(mode), ret |-> ""]
    /\ UNCHANGED <<templates, template>>

(***************************************************************************)
(* Runs: state after construction                                          *)
(***************************************************************************)

\* A worker thread: its kind, its position (pc), its locals, how its per-file
\* loop ended (exit: "exhausted", "stopped" by the flag, "raised") and whether
\* stop() set the flag while it was running (cancel).
NoRun == [kind |-> "none", pc |-> "idle", mode |-> "", items |-> <<>>,
          idx |-> 0, processed |-> 0, total |-> 0, successful |-> 0,
          exit |-> "", cancel |-> FALSE]

NoAnalyzer == [pc |-> "idle", data |-> <<>>]

\* Archimedius.__init__ / MediaOrganizer.__init__ and the widgets as
\* _create_widgets leaves them: Copy All / Move All enabled, Stop disabled,
\* the preview buttons enabled, an empty preview.
InitRuns ==
    /\ stop_requested = FALSE
    /\ is_running = FALSE
    /\ files_processed = 0
    /\ total_files = 0
    /\ buttons = [start |-> TRUE, stop |-> FALSE, preview |-> TRUE]
    /\ processing_selected_files = FALSE
    /\ preview_tree = <<>>
    /\ preview_files = <<>>
    /\ afterq = <<>>
    /\ runs = [r \in Runs |-> NoRun]
    /\ nruns = 0
    /\ analyzers = [a \in Analyzers |-> NoAnalyzer]
    /\ nanalyzers = 0
    /\ src = Files
    /\ dst = {}
    /\ progress = [r \in Runs |-> <<>>]
    /\ attempts = [r \in Runs |-> <<>>]

\* No library call is under study.
NoLib == [op |-> "none"]

Init ==
    /\ impl \in {"gui", "legacy"}
    /\ InitEngine
    /\ InitRuns
    /\ lib = NoLib

(***************************************************************************)
(* Helpers shared by the executors                                         *)
(***************************************************************************)

\* A callback posted to the Tk main loop with root.after(0, ...).
ProgressEv(r, p, t, f) ==
    [ev |-> "progress", run |-> r, p |-> p, t |-> t, f |-> f, on |-> FALSE, data |-> <<>>]
UiEv(on) ==
    [ev |-> "ui", run |-> 0, p |-> 0, t |-> 0, f |-> "", on |-> on, data |-> <<>>]
PreviewEv(data, count) ==
    [ev |-> "preview", run |-> 0, p |-> count, t |-> 0, f |-> "", on |-> FALSE, data |-> data]

\* One onProgress(processed, total, current_file) call, as logged per run.
ProgressCall(p, t, f) == [p |-> p, t |-> t, f |-> f]

\* One per-file attempt: the file and how the attempt ended
\* ("ok", "failed": an exception caught by the per-file handler, "missing":
\* the source no longer exists).
Attempt(f, outcome) == [file |-> f, outcome |-> outcome]

\* shutil.copy2 leaves the source in place, shutil.move removes it.
SrcAfterTransfer(mode, f) == IF mode = "copy" THEN src ELSE src \ {f}
DstAfterTransfer(f) == dst \cup {f}

\* The for loop reaches its end after the last element.
LastOf(n, i) == i >= n

Active(r) == runs[r].kind # "none" /\ runs[r].pc # "done"

(***************************************************************************)
(* archimedius_gui.py: handlers that run on the main (Tk) thread           *)
(***************************************************************************)

\* The template entries of the window: _create_widgets fills them from the
\* engine's templates, and no modelled handler edits them.
TemplateVars == DEFAULT_TEMPLATES

\* _start_organization followed by _run_organization_with_filters. Copy All
\* and Move All invoke it; a disabled button delivers no command. The handler
\* sets the mode and then calls set_template(template, media_type) for every
\* entry, which also sets the legacy default template to the audio entry.
StartOrganization(mode) ==
    /\ impl = "gui"
    /\ buttons.start
    /\ nruns < MaxRuns
    /\ operation_mode' = OperationModeAfterSet(mode)
    /\ templates' = TemplateVars
    /\ template' = TemplateVars["audio"]
    /\ stop_requested' = FALSE
    /\ is_running' = TRUE
    /\ files_processed' = 0
    /\ buttons' = [buttons EXCEPT !.start = FALSE, !.stop = TRUE]
    /\ preview_tree' = <<>>
    /\ nruns' = nruns + 1
    /\ runs' = [runs EXCEPT ![nruns + 1] =
                    [NoRun EXCEPT !.kind = "organize", !.pc = "count", !.idx = 1]]
    /\ UNCHANGED <<impl, lib, call, total_files, processing_selected_files,
                   preview_files, afterq, analyzers, nanalyzers, fsVars, logVars>>

\* The (full_path, dest_path) pairs of the entries of preview_files that are selected.
SelectedFiles ==
    LET sel == SelectSeq(preview_files, LAMBDA e : e.selected)
    IN  [i \in 1..Len(sel) |-> sel[i].file]

\* A process-selected start that leaves the stop flag and the counter as the
\* earlier run left them.
ProcessSelectedKeepsFlags(mode) ==
    /\ impl = "gui"
    /\ buttons.preview
    /\ SelectedFiles # <<>>
    /\ nruns < MaxRuns
    /\ operation_mode' = OperationModeAfterSet(mode)
    /\ is_running' = TRUE
    /\ processing_selected_files' = TRUE
    /\ nruns' = nruns + 1
    /\ runs' = [runs EXCEPT ![nruns + 1] =
                    [NoRun EXCEPT !.kind = "selected", !.pc = "begin", !.mode = mode,
                                  !.items = SelectedFiles]]
    /\ UNCHANGED <<impl, lib, templates, template, call, total_files, buttons, preview_tree,
                   preview_files, afterq, analyzers, nanalyzers, fsVars, logVars,
                   stop_requested, files_processed>>

\* _process_selected_files: Copy Selected / Move Selected.
ProcessSelected(mode) ==
    /\ impl = "gui"
    /\ buttons.preview
    /\ SelectedFiles # <<>>
    /\ nruns < MaxRuns
    /\ operation_mode' = OperationModeAfterSet(mode)
    /\ stop_requested' = FALSE
    /\ is_running' = TRUE
    /\ files_processed' = 0
    /\ processing_selected_files' = TRUE
    /\ nruns' = nruns + 1
    /\ runs' = [runs EXCEPT ![nruns + 1] =
                    [NoRun EXCEPT !.kind = "selected", !.pc = "begin", !.mode = mode,
                                  !.items = SelectedFiles]]
    /\ UNCHANGED <<impl, lib, templates, template, call, total_files, buttons, preview_tree,
                   preview_files, afterq, analyzers, nanalyzers, fsVars, logVars>>

\* _generate_preview: the Analyze button, and the timer every settings change
\* arms through _auto_generate_preview (the File menu's directory entries
\* among them, which no handler disables).
GeneratePreview ==
    /\ impl = "gui"
    /\ nanalyzers < MaxAnalyze
    /\ preview_tree' = <<>>
    /\ nanalyzers' = nanalyzers + 1
    /\ analyzers' = [analyzers EXCEPT ![nanalyzers + 1] = [pc |-> "scan", data |-> <<>>]]
    /\ UNCHANGED <<impl, lib, engineVars, flagVars, buttons, processing_selected_files,
                   preview_files, afterq, runs, nruns, fsVars, logVars>>

\* _select_all_files: every row of the tree becomes selected.
SelectAllFiles ==
    /\ impl = "gui"
    /\ buttons.preview
    /\ \E i \in 1..Len(preview_tree) : ~preview_files[preview_tree[i]].selected
    /\ preview_files' =
          [i \in 1..Len(preview_files) |->
              IF \E k \in 1..Len(preview_tree) : preview_tree[k] = i
                  THEN [preview_files[i] EXCEPT !.selected = TRUE]
                  ELSE preview_files[i]]
    /\ UNCHANGED <<impl, lib, engineVars, flagVars, buttons, processing_selected_files,
                   preview_tree, afterq, threadVars, fsVars, logVars>>

\* Archimedius.stop / MediaOrganizer.stop: self.stop_requested = True.
StopRequestedAfterStop == TRUE

\* The runs in progress when stop() sets the flag are the runs it cancels.
CancelNoted ==
    [r \in Runs |-> IF Active(r) /\ StopRequestedAfterStop
                        THEN [runs[r] EXCEPT !.cancel = TRUE] ELSE runs[r]]

\* _stop_organization: the Stop button; stop() is called only while is_running.
StopOrganization ==
    /\ impl = "gui"
    /\ buttons.stop
    /\ is_running
    /\ ~stop_requested
    /\ stop_requested' = StopRequestedAfterStop
    /\ runs' = CancelNoted
    /\ UNCHANGED <<impl, lib, engineVars, is_running, files_processed, total_files, guiVars,
                   afterq, nruns, analyzers, nanalyzers, fsVars, logVars>>

\* _organization_complete: Copy All / Move All enabled again, Stop disabled.
ButtonsAfterComplete == [buttons EXCEPT !.start = TRUE, !.stop = FALSE]

\* _update_progress(processed, total, current_file): beyond the display
\* variables it acts only on the terminal call of a run that is not a
\* process-selected run.
ButtonsAfterProgress(e) ==
    IF e.f = Complete /\ ~processing_selected_files THEN ButtonsAfterComplete ELSE buttons

\* _update_ui_for_processing(is_processing).
ButtonsAfterUi(on) ==
    IF on THEN [start |-> FALSE, stop |-> TRUE, preview |-> FALSE]
          ELSE [start |-> TRUE, stop |-> FALSE, preview |-> TRUE]

\* The main loop runs the oldest posted callback.
MainLoop ==
    /\ impl = "gui"
    /\ afterq # <<>>
    /\ LET e == Head(afterq) IN
        /\ afterq' = Tail(afterq)
        /\ buttons' = CASE e.ev = "progress" -> ButtonsAfterProgress(e)
                        [] e.ev = "ui" -> ButtonsAfterUi(e.on)
                        [] OTHER -> buttons
        /\ processing_selected_files' =
              IF e.ev = "ui" /\ ~e.on THEN FALSE ELSE processing_selected_files
        \* _update_preview_results(preview_data, count)
        /\ preview_tree' =
              IF e.ev = "preview" THEN [i \in 1..Len(e.data) |-> i] ELSE preview_tree
        /\ preview_files' =
              IF e.ev = "preview"
                  THEN [i \in 1..Len(e.data) |-> [file |-> e.data[i], selected |-> FALSE]]
                  ELSE preview_files
    /\ UNCHANGED <<impl, lib, engineVars, flagVars, threadVars, fsVars, logVars>>

(***************************************************************************)
(* archimedius_gui.py: _run_organization_process (the organize worker)     *)
(***************************************************************************)

\* The walk yields the source files in order; a file that is no longer at its
\* source path is not yielded as a file.
IsMatchingFile(f) == f \in src

\* Where a loop over n elements stands after element i: the next element, or
\* the code after the loop.
AfterElement(run, n, nextpc) ==
    IF LastOf(n, run.idx) THEN [run EXCEPT !.pc = nextpc, !.idx = 1]
                          ELSE [run EXCEPT !.idx = @ + 1]

\* Where the per-file loop stands after one iteration.
AfterIteration(run, n, nextpc) ==
    [AfterElement(run, n, nextpc) EXCEPT !.exit = IF LastOf(n, run.idx) THEN "exhausted" ELSE @]

\* A per-file exception that escapes the loop instead of being caught.
AfterAttemptUncaught(run, n, nextpc, outcome) ==
    IF outcome = "failed" THEN [run EXCEPT !.pc = "finally", !.exit = "raised"]
                          ELSE AfterIteration(run, n, nextpc)

\* Where the per-file loop stands after an attempt: the except clause of the
\* per-file try logs the error and falls through to the end of the iteration,
\* as the try block does.
AfterAttempt(run, n, nextpc, outcome) == AfterIteration(run, n, nextpc)

\* The loop head finds the flag set: break.
AfterBreak(run, nextpc) == [run EXCEPT !.pc = nextpc, !.exit = "stopped"]

\* The count pass: one iteration of the first rglob loop.
OrgCount(r) ==
    LET run == runs[r] IN
    /\ run.kind = "organize" /\ run.pc = "count"
    /\ runs' = [runs EXCEPT ![r] =
          IF stop_requested
              THEN [run EXCEPT !.pc = "walk", !.idx = 1]
              ELSE AfterElement(
                      [run EXCEPT !.total = IF IsMatchingFile(run.idx) THEN @ + 1 ELSE @],
                      NumFiles, "walk")]
    /\ UNCHANGED <<impl, lib, engineVars, flagVars, guiVars, afterq, nruns, analyzers,
                   nanalyzers, fsVars, logVars>>

\* The per-file attempt ends in the try block (the file is copied or moved)
\* or in its except clause (nothing is transferred).
AttemptOutcomes == {"ok", "failed"}

\* processed after an attempt: the organize worker counts every attempt.
OrgProcessedAfter(run, outcome) == run.processed + 1

\* The progress calls the organize worker posts for one attempt.
OrgProgressAfter(run, f, outcome) ==
    <<ProgressCall(OrgProcessedAfter(run, outcome), run.total, PathOf(f))>>

\* The stop flag as the loop head reads it.
StopSeen == stop_requested

\* The process pass: one iteration of the second rglob loop.
OrgWalk(r) ==
    LET run == runs[r]
        f == run.idx
    IN
    /\ run.kind = "organize" /\ run.pc = "walk"
    /\ IF StopSeen
          THEN /\ runs' = [runs EXCEPT ![r] = AfterBreak(run, "complete")]
               /\ UNCHANGED <<fsVars, logVars>>
          ELSE IF ~IsMatchingFile(f)
          THEN /\ runs' = [runs EXCEPT ![r] = AfterIteration(run, NumFiles, "complete")]
               /\ UNCHANGED <<fsVars, logVars>>
          ELSE \E outcome \in AttemptOutcomes :
               LET calls == OrgProgressAfter(run, f, outcome) IN
               /\ src' = IF outcome = "ok" THEN SrcAfterTransfer(operation_mode, f) ELSE src
               /\ dst' = IF outcome = "ok" THEN DstAfterTransfer(f) ELSE dst
               /\ runs' = [runs EXCEPT ![r] =
                     AfterAttempt([run EXCEPT !.processed = OrgProcessedAfter(run, outcome)],
                                  NumFiles, "complete", outcome)]
               /\ attempts' = [attempts EXCEPT ![r] = Append(@, Attempt(f, outcome))]
               /\ progress' = [progress EXCEPT ![r] = @ \o calls]
    /\ UNCHANGED <<impl, lib, engineVars, flagVars, guiVars, afterq, nruns, analyzers, nanalyzers>>

\* After the loop: files_processed is published and the terminal call posted.
OrgComplete(r) ==
    LET run == runs[r] IN
    /\ run.kind = "organize" /\ run.pc = "complete"
    /\ files_processed' = run.processed
    /\ progress' = [progress EXCEPT ![r] = Append(@, ProgressCall(run.processed, run.total, Complete))]
    /\ afterq' = Append(afterq, ProgressEv(r, run.processed, run.total, Complete))
    /\ runs' = [runs EXCEPT ![r] = [run EXCEPT !.pc = "finally"]]
    /\ UNCHANGED <<impl, lib, engineVars, stop_requested, is_running, total_files, guiVars,
                   nruns, analyzers, nanalyzers, fsVars, attempts>>

\* An exception raised outside the per-file try (by the directory walk: rglob,
\* is_file) lands in the outer except clause, which shows an error box and
\* posts no progress call; control goes to the finally clause.
OrgWalkRaises(r) ==
    LET run == runs[r] IN
    /\ run.kind = "organize" /\ run.pc \in {"count", "walk"}
    /\ runs' = [runs EXCEPT ![r] = [run EXCEPT !.pc = "finally", !.exit = "raised"]]
    /\ UNCHANGED <<impl, lib, engineVars, flagVars, guiVars, afterq, nruns, analyzers,
                   nanalyzers, fsVars, logVars>>

\* finally: self.organizer.is_running = False.
OrgFinally(r) ==
    LET run == runs[r] IN
    /\ run.kind = "organize" /\ run.pc = "finally"
    /\ is_running' = FALSE
    /\ runs' = [runs EXCEPT ![r] = [run EXCEPT !.pc = "done"]]
    /\ UNCHANGED <<impl, lib, engineVars, stop_requested, files_processed, total_files, guiVars,
                   afterq, nruns, analyzers, nanalyzers, fsVars, logVars>>

(***************************************************************************)
(* archimedius_gui.py: _process_selected_files_thread                      *)
(***************************************************************************)

\* The worker first posts _update_ui_for_processing(True), then reads the list.
SelBegin(r) ==
    LET run == runs[r] IN
    /\ run.kind = "selected" /\ run.pc = "begin"
    /\ afterq' = Append(afterq, UiEv(TRUE))
    /\ runs' = [runs EXCEPT ![r] = [run EXCEPT !.pc = "loop", !.idx = 1, !.total = Len(run.items)]]
    /\ UNCHANGED <<impl, lib, engineVars, flagVars, guiVars, nruns, analyzers, nanalyzers,
                   fsVars, logVars>>

\* The progress calls the process-selected worker posts for one list entry:
\* none for an entry whose source no longer exists (processed += 1; continue).
SelProgressAfter(run, f, outcome) ==
    IF outcome = "missing" THEN <<>>
    ELSE <<ProgressCall(run.processed + 1, run.total, PathOf(f))>>

\* One iteration of the loop over selected_files.
SelStep(r) ==
    LET run == runs[r]
        f == run.items[run.idx]
        n == Len(run.items)
    IN
    /\ run.kind = "selected" /\ run.pc = "loop"
    /\ IF StopSeen
          THEN /\ runs' = [runs EXCEPT ![r] = AfterBreak(run, "complete")]
               /\ UNCHANGED <<fsVars, logVars>>
          ELSE \E outcome \in IF f \in src THEN AttemptOutcomes ELSE {"missing"} :
               LET calls == SelProgressAfter(run, f, outcome) IN
               /\ src' = IF outcome = "ok" THEN SrcAfterTransfer(run.mode, f) ELSE src
               /\ dst' = IF outcome = "ok" THEN DstAfterTransfer(f) ELSE dst
               /\ runs' = [runs EXCEPT ![r] =
                     AfterAttempt([run EXCEPT !.processed = @ + 1,
                                              !.successful = IF outcome = "ok" THEN @ + 1 ELSE @],
                                  n, "complete", outcome)]
               /\ attempts' = [attempts EXCEPT ![r] = Append(@, Attempt(f, outcome))]
               /\ progress' = [progress EXCEPT ![r] = @ \o calls]
    /\ UNCHANGED <<impl, lib, engineVars, flagVars, guiVars, afterq, nruns, analyzers, nanalyzers>>

\* After the loop: files_processed = successful and the terminal call. (The
\* completion box and the delayed preview refresh change nothing modelled:
\* GeneratePreview may fire at any time.)
SelComplete(r) ==
    LET run == runs[r] IN
    /\ run.kind = "selected" /\ run.pc = "complete"
    /\ files_processed' = run.successful
    /\ progress' = [progress EXCEPT ![r] = Append(@, ProgressCall(run.processed, run.total, Complete))]
    /\ afterq' = Append(afterq, ProgressEv(r, run.processed, run.total, Complete))
    /\ runs' = [runs EXCEPT ![r] = [run EXCEPT !.pc = "finally"]]
    /\ UNCHANGED <<impl, lib, engineVars, stop_requested, is_running, total_files, guiVars,
                   nruns, analyzers, nanalyzers, fsVars, attempts>>

\* finally: is_running = False and _update_ui_for_processing(False) is posted.
SelFinally(r) ==
    LET run == runs[r] IN
    /\ run.kind = "selected" /\ run.pc = "finally"
    /\ is_running' = FALSE
    /\ afterq' = Append(afterq, UiEv(FALSE))
    /\ runs' = [runs EXCEPT ![r] = [run EXCEPT !.pc = "done"]]
    /\ UNCHANGED <<impl, lib, engineVars, stop_requested, files_processed, total_files, guiVars,
                   nruns, analyzers, nanalyzers, fsVars, logVars>>

(***************************************************************************)
(* archimedius_gui.py: _generate_preview_thread (the analyze worker)       *)
(***************************************************************************)

\* The files of the source tree, in walk order.
RECURSIVE FilesFrom(_)
FilesFrom(i) ==
    IF i > NumFiles THEN <<>>
    ELSE (IF IsMatchingFile(i) THEN <<i>> ELSE <<>>) \o FilesFrom(i + 1)

\* The scan, extraction and rendering of the pass, then the posted
\* _update_preview_results(preview_data, processed).
AnalyzeScan(a) ==
    /\ analyzers[a].pc = "scan"
    /\ LET data == FilesFrom(1) IN
        /\ analyzers' = [analyzers EXCEPT ![a] = [pc |-> "done", data |-> <<>>]]
        /\ afterq' = Append(afterq, PreviewEv(data, Len(data)))
    /\ UNCHANGED <<impl, lib, engineVars, flagVars, guiVars, runs, nruns, nanalyzers,
                   fsVars, logVars>>

(***************************************************************************)
(* media_organizer.py: MediaOrganizer.organize_files(callback)             *)
(***************************************************************************)

\* organize_files is synchronous: one caller thread has at most one call in
\* progress. The caller sets the mode, then calls; the first statements set
\* is_running, clear stop_requested and zero files_processed.
OrganizeFiles(mode) ==
    /\ impl = "legacy"
    /\ nruns < MaxRuns
    /\ \A r \in Runs : ~Active(r)
    /\ operation_mode' = OperationModeAfterSet(mode)
    /\ is_running' = TRUE
    /\ stop_requested' = FALSE
    /\ files_processed' = 0
    /\ nruns' = nruns + 1
    /\ runs' = [runs EXCEPT ![nruns + 1] = [NoRun EXCEPT !.kind = "legacy", !.pc = "find"]]
    /\ UNCHANGED <<impl, lib, templates, template, call, total_files, guiVars, afterq,
                   analyzers, nanalyzers, fsVars, logVars>>

\* find_media_files: the source directory exists, total_files is zeroed and
\* the count pass begins.
LegacyFind(r) ==
    LET run == runs[r] IN
    /\ run.kind = "legacy" /\ run.pc = "find"
    /\ total_files' = 0
    /\ runs' = [runs EXCEPT ![r] = [run EXCEPT !.pc = "find_count", !.idx = 1]]
    /\ UNCHANGED <<impl, lib, engineVars, stop_requested, is_running, files_processed, guiVars,
                   afterq, nruns, analyzers, nanalyzers, fsVars, logVars>>

\* find_media_files raises (ValueError: the source directory does not exist,
\* or an error of the walk); organize_files logs it in its outer except clause.
LegacyFindRaises(r) ==
    LET run == runs[r] IN
    /\ run.kind = "legacy" /\ run.pc \in {"find", "find_count", "find_collect"}
    /\ runs' = [runs EXCEPT ![r] = [run EXCEPT !.pc = "finally", !.exit = "raised"]]
    /\ UNCHANGED <<impl, lib, engineVars, flagVars, guiVars, afterq, nruns, analyzers,
                   nanalyzers, fsVars, logVars>>

\* find_media_files, count pass: one iteration.
LegacyCount(r) ==
    LET run == runs[r] IN
    /\ run.kind = "legacy" /\ run.pc = "find_count"
    /\ IF stop_requested
          THEN /\ runs' = [runs EXCEPT ![r] = [run EXCEPT !.pc = "find_collect", !.idx = 1]]
               /\ UNCHANGED total_files
          ELSE /\ runs' = [runs EXCEPT ![r] = AfterElement(run, NumFiles, "find_collect")]
               /\ total_files' = IF IsMatchingFile(run.idx) THEN total_files + 1 ELSE total_files
    /\ UNCHANGED <<impl, lib, engineVars, stop_requested, is_running, files_processed, guiVars,
                   afterq, nruns, analyzers, nanalyzers, fsVars, logVars>>

\* The code after the collect pass: the loop over media_files, which is not
\* entered for an empty list.
AfterCollect(run) ==
    IF run.items = <<>> THEN [run EXCEPT !.pc = "finally", !.idx = 1, !.exit = "exhausted"]
                        ELSE [run EXCEPT !.pc = "loop", !.idx = 1]

\* find_media_files, collect pass: one iteration.
LegacyCollect(r) ==
    LET run == runs[r]
        kept == IF IsMatchingFile(run.idx) THEN [run EXCEPT !.items = Append(@, run.idx)] ELSE run
    IN
    /\ run.kind = "legacy" /\ run.pc = "find_collect"
    /\ runs' = [runs EXCEPT ![r] =
          IF stop_requested THEN AfterCollect(run)
          ELSE IF LastOf(NumFiles, run.idx) THEN AfterCollect(kept)
          ELSE [kept EXCEPT !.idx = @ + 1]]
    /\ UNCHANGED <<impl, lib, engineVars, flagVars, guiVars, afterq, nruns, analyzers,
                   nanalyzers, fsVars, logVars>>

\* files_processed after an attempt: incremented in the try block, after the
\* transfer, so only a successful attempt counts.
LegacyProcessedAfter(outcome) ==
    IF outcome = "ok" THEN files_processed + 1 ELSE files_processed

\* The callback calls organize_files makes for one attempt: one, at the end
\* of the try block.
LegacyProgressAfter(f, outcome) ==
    IF outcome = "ok"
        THEN <<ProgressCall(LegacyProcessedAfter(outcome), total_files, PathOf(f))>>
        ELSE <<>>

\* One iteration of the loop over media_files.
LegacyStep(r) ==
    LET run == runs[r]
        f == run.items[run.idx]
    IN
    /\ run.kind = "legacy" /\ run.pc = "loop"
    /\ IF StopSeen
          THEN /\ runs' = [runs EXCEPT ![r] = AfterBreak(run, "finally")]
               /\ UNCHANGED <<files_processed, fsVars, logVars>>
          ELSE \E outcome \in IF f \in src THEN AttemptOutcomes ELSE {"failed"} :
               /\ src' = IF outcome = "ok" THEN SrcAfterTransfer(operation_mode, f) ELSE src
               /\ dst' = IF outcome = "ok" THEN DstAfterTransfer(f) ELSE dst
               /\ files_processed' = LegacyProcessedAfter(outcome)
               /\ runs' = [runs EXCEPT ![r] = AfterAttempt(run, Len(run.items), "finally", outcome)]
               /\ attempts' = [attempts EXCEPT ![r] = Append(@, Attempt(f, outcome))]
               /\ progress' = [progress EXCEPT ![r] = @ \o LegacyProgressAfter(f, outcome)]
    /\ UNCHANGED <<impl, lib, engineVars, stop_requested, is_running, total_files, guiVars,
                   afterq, nruns, analyzers, nanalyzers>>

\* finally: is_running = False and callback(files_processed, total_files, "Complete").
LegacyFinally(r) ==
    LET run == runs[r] IN
    /\ run.kind = "legacy" /\ run.pc = "finally"
    /\ is_running' = FALSE
    /\ progress' = [progress EXCEPT ![r] = Append(@, ProgressCall(files_processed, total_files, Complete))]
    /\ runs' = [runs EXCEPT ![r] = [run EXCEPT !.pc = "done"]]
    /\ UNCHANGED <<impl, lib, engineVars, stop_requested, files_processed, total_files, guiVars,
                   afterq, nruns, analyzers, nanalyzers, fsVars, attempts>>

\* MediaOrganizer.stop, callable from any thread at any time.
Stop ==
    /\ impl = "legacy"
    /\ ~stop_requested
    /\ stop_requested' = StopRequestedAfterStop
    /\ runs' = CancelNoted
    /\ UNCHANGED <<impl, lib, engineVars, is_running, files_processed, total_files, guiVars,
                   afterq, nruns, analyzers, nanalyzers, fsVars, logVars>>

(***************************************************************************)
(* Specifications                                                          *)
(***************************************************************************)

StartOrganizationCall == \E mode \in {"copy", "move"} : StartOrganization(mode)
ProcessSelectedCall == \E mode \in {"copy", "move"} : ProcessSelected(mode)
OrganizeFilesCall == \E mode \in {"copy", "move"} : OrganizeFiles(mode)
OrgCountStep == \E r \in Runs : OrgCount(r)
OrgWalkStep == \E r \in Runs : OrgWalk(r)
OrgCompleteStep == \E r \in Runs : OrgComplete(r)
OrgWalkRaisesStep == \E r \in Runs : OrgWalkRaises(r)
OrgFinallyStep == \E r \in Runs : OrgFinally(r)
SelBeginStep == \E r \in Runs : SelBegin(r)
SelLoopStep == \E r \in Runs : SelStep(r)
SelCompleteStep == \E r \in Runs : SelComplete(r)
SelFinallyStep == \E r \in Runs : SelFinally(r)
AnalyzeStep == \E a \in Analyzers : AnalyzeScan(a)
LegacyFindStep == \E r \in Runs : LegacyFind(r)
LegacyFindRaisesStep == \E r \in Runs : LegacyFindRaises(r)
LegacyCountStep == \E r \in Runs : LegacyCount(r)
LegacyCollectStep == \E r \in Runs : LegacyCollect(r)
LegacyLoopStep == \E r \in Runs : LegacyStep(r)
LegacyFinallyStep == \E r \in Runs : LegacyFinally(r)

WorkerStep ==
    \/ OrgCountStep
    \/ OrgWalkStep
    \/ OrgCompleteStep
    \/ OrgWalkRaisesStep
    \/ OrgFinallyStep
    \/ SelBeginStep
    \/ SelLoopStep
    \/ SelCompleteStep
    \/ SelFinallyStep
    \/ AnalyzeStep
    \/ LegacyFindStep
    \/ LegacyFindRaisesStep
    \/ LegacyCountStep
    \/ LegacyCollectStep
    \/ LegacyLoopStep
    \/ LegacyFinallyStep

Next ==
    \/ StartOrganizationCall
    \/ ProcessSelectedCall
    \/ GeneratePreview
    \/ SelectAllFiles
    \/ StopOrganization
    \/ MainLoop
    \/ OrganizeFilesCall
    \/ Stop
    \/ WorkerStep

Spec == Init /\ [][Next]_vars

\* The engine's configuration calls alone.
SetTemplateCall ==
    (\E t \in TemplateArgs, mt \in MediaTypeArgs : set_template(t, mt)) /\ UNCHANGED nonEngineVars
GetTemplateCall ==
    (\E mt \in MediaTypeArgs : get_template(mt)) /\ UNCHANGED nonEngineVars
SetOperationModeCall ==
    (\E m \in ModeArgs : set_operation_mode(m)) /\ UNCHANGED nonEngineVars

NextEngine ==
    \/ SetTemplateCall
    \/ GetTemplateCall
    \/ SetOperationModeCall

InitConfig == impl = "gui" /\ InitEngine /\ InitRuns /\ lib = NoLib

SpecEngine == InitConfig /\ [][NextEngine]_vars

(***************************************************************************)
(* Claims about the engine's configuration calls (under SpecEngine)        *)
(***************************************************************************)

C8_SetTemplateTouchesOneCategory ==
    [][(call'.op = "set_template" /\ call'.media_type \in DOMAIN templates) =>
          /\ templates'[call'.media_type] = call'.arg
          /\ \A other \in DOMAIN templates \ {call'.media_type} :
                templates'[other] = templates[other]
          /\ DOMAIN templates' = DOMAIN templates
          /\ (call'.media_type = "audio" => template' = call'.arg)]_vars

\* The video template set while the audio template holds another, non-default value.
C8_Witness ==
    /\ call.op = "set_template" /\ call.media_type = "video"
    /\ templates["video"] = call.arg
    /\ templates["audio"] # call.arg
    /\ templates["audio"] # DEFAULT_TEMPLATES["audio"]

\* C9: set_template(t) without a media type sets the legacy default template
\* and the audio template to t and leaves video, image and ebook as they were.
C9_SetTemplateWithoutTypeSetsAudio ==
    [][(call'.op = "set_template" /\ call'.media_type = None) =>
          /\ template' = call'.arg
          /\ templates'["audio"] = call'.arg
          /\ \A other \in {"video", "image", "ebook"} : templates'[other] = templates[other]]_vars

\* A call without media type made after the video template had been changed.
C9_Witness ==
    /\ call.op = "set_template" /\ call.media_type = None
    /\ template = call.arg /\ templates["audio"] = call.arg
    /\ templates["video"] \notin {call.arg, DEFAULT_TEMPLATES["video"]}

\* C10: get_template(media_type) returns the category's template, and the
\* current audio template for a media type that has none ("unknown" included).
C10_GetTemplateFallsBackToAudio ==
    call.op = "get_template" =>
        call.ret = IF call.media_type \in MediaTypes THEN templates[call.media_type]
                                                     ELSE templates["audio"]

\* "unknown" asked for after the audio template had been changed.
C10_Witness ==
    /\ call.op = "get_template" /\ call.media_type = "unknown"
    /\ call.ret = "Fallback/{filename}"
    /\ templates["video"] = DEFAULT_TEMPLATES["video"]

(***************************************************************************)
(* Claims about the executors (under Spec)                                 *)
(***************************************************************************)

\* The files a run has attempted, in order.
AttemptedFiles(r) == [i \in 1..Len(attempts[r]) |-> attempts[r][i].file]

\* The per-file progress calls of a run and its terminal calls.
PerFileCalls(r) == SelectSeq(progress[r], LAMBDA c : c.f # Complete)
CompleteCalls(r) == SelectSeq(progress[r], LAMBDA c : c.f = Complete)

\* A step in which run r makes a per-file attempt that ends as `outcome`.
AttemptStep(r, outcome) ==
    /\ Len(attempts'[r]) = Len(attempts[r]) + 1
    /\ attempts'[r][Len(attempts'[r])].outcome = outcome

\* A run whose loop ran to its end attempted every file it was to process:
\* the organize worker every file still at its source path, the other two
\* every entry of their list, in order.
AllAttempted(r) ==
    IF runs[r].kind = "organize"
        THEN \A f \in Files : f \in src => \E i \in 1..Len(attempts[r]) : attempts[r][i].file = f
        ELSE AttemptedFiles(r) = runs[r].items

\* C1: a failure while processing one file is caught and the run continues:
\* the failed attempt leaves the run in its loop (or, after the last file, in
\* the code after the loop), every remaining file is still attempted, and no
\* step takes back a file already copied or moved.
C1_FailureDoesNotStopRun ==
    /\ [](\A r \in Runs : runs[r].exit = "exhausted" => AllAttempted(r))
    /\ [][/\ \A r \in Runs : AttemptStep(r, "failed") =>
                /\ runs'[r].exit # "raised"
                /\ runs'[r].exit = "exhausted" \/ runs'[r].idx = runs[r].idx + 1
                /\ src' = src /\ dst' = dst
          /\ dst \subseteq dst'
          /\ src' \subseteq src]_vars

\* A run that failed on its first file, went on to transfer the second and
\* ran to its end.
C1_Witness ==
    \E r \in Runs :
        /\ runs[r].pc = "done" /\ runs[r].exit = "exhausted"
        /\ Len(attempts[r]) = 2
        /\ attempts[r][1].outcome = "failed"
        /\ attempts[r][2].outcome = "ok"
        /\ attempts[r][2].file \in dst

\* C2: after every attempt, successful or not, onProgress is invoked once,
\* and processedCount counts the attempts: the k-th per-file call of a run
\* carries k and the path of the k-th attempted file.
C2_ProgressAfterEveryAttempt ==
    \A r \in Runs :
        /\ Len(PerFileCalls(r)) = Len(attempts[r])
        /\ \A k \in 1..Len(PerFileCalls(r)) :
              /\ PerFileCalls(r)[k].p = k
              /\ PerFileCalls(r)[k].f = PathOf(attempts[r][k].file)

\* C3: every run that starts issues the terminal "Complete" call exactly once.
C3_CompleteExactlyOnce ==
    \A r \in Runs :
        /\ Len(CompleteCalls(r)) <= 1
        /\ runs[r].pc = "done" => Len(CompleteCalls(r)) = 1

\* C4: once stop() has set the flag during a run, that run attempts no
\* further file.
C4_NoAttemptAfterStop ==
    [][\A r \in Runs : runs[r].cancel => attempts'[r] = attempts[r]]_vars

\* The long-running operations in progress.
ActiveOperations ==
    Cardinality({r \in Runs : Active(r)}) + Cardinality({a \in Analyzers : analyzers[a].pc = "scan"})

\* C5: at most one long-running operation (analyze, organize,
\* process-selected) is in progress at any time.
C5_SingleFlight == ActiveOperations <= 1

\* C6: a run leaves Running only together with the completion signal: the
\* step that ends it finds the "Complete" call already issued.
C6_EndsOnlyWithCompletionSignal ==
    [][\A r \in Runs : (runs[r].pc # "done" /\ runs'[r].pc = "done") =>
            Len(SelectSeq(progress'[r], LAMBDA c : c.f = Complete)) >= 1]_vars

(***************************************************************************)
(* media_file.py: strings and MediaFile._get_file_type                     *)
(***************************************************************************)

\* A Python str is modelled as the sequence of its characters.
UpperLetters == <<"A", "B", "C", "D", "E", "F", "G", "H", "I", "J", "K", "L", "M",
                  "N", "O", "P", "Q", "R", "S", "T", "U", "V", "W", "X", "Y", "Z">>
LowerLetters == <<"a", "b", "c", "d", "e", "f", "g", "h", "i", "j", "k", "l", "m",
                  "n", "o", "p", "q", "r", "s", "t", "u", "v", "w", "x", "y", "z">>

LowerChar(c) ==
    IF \E i \in 1..Len(UpperLetters) : UpperLetters[i] = c
        THEN LowerLetters[CHOOSE i \in 1..Len(UpperLetters) : UpperLetters[i] = c]
        ELSE c

\* str.lower()
StrLower(s) == [i \in 1..Len(s) |-> LowerChar(s[i])]

\* str.split(sep) for a one-character separator.
RECURSIVE SplitOn(_, _)
SplitOn(s, sep) ==
    IF \A i \in 1..Len(s) : s[i] # sep THEN <<s>>
    ELSE LET k == CHOOSE i \in 1..Len(s) : s[i] = sep /\ \A j \in 1..(i - 1) : s[j] # sep
         IN  <<SubSeq(s, 1, k - 1)>> \o SplitOn(SubSeq(s, k + 1, Len(s)), sep)

\* str.rfind(c), 1-based; 0 when c does not occur.
RFind(s, c) ==
    IF \E i \in 1..Len(s) : s[i] = c
        THEN CHOOSE i \in 1..Len(s) : s[i] = c /\ \A j \in (i + 1)..Len(s) : s[j] # c
        ELSE 0

\* Path(p).name: the last component; empty and "." components are dropped.
PathName(p) ==
    LET parts == SelectSeq(SplitOn(p, "/"), LAMBDA c : c # <<>> /\ c # <<".">>)
    IN  IF parts = <<>> THEN <<>> ELSE parts[Len(parts)]

\* Path(p).suffix: the name from its last dot on, when that dot is neither
\* the first nor the last character of the name.
PathSuffix(p) ==
    LET name == PathName(p)
        i == RFind(name, ".")
    IN  IF 1 < i /\ i < Len(name) THEN SubSeq(name, i, Len(name)) ELSE <<>>

\* The loop over supported_extensions.items(), in insertion order: the first
\* type whose list holds ext, "unknown" after the loop.
RECURSIVE FirstTypeWith(_, _, _)
FirstTypeWith(ext, supported_extensions, i) ==
    IF i > Len(supported_extensions) THEN "unknown"
    ELSE IF ext \in supported_extensions[i].exts THEN supported_extensions[i].type
    ELSE FirstTypeWith(ext, supported_extensions, i + 1)

\* A classifier that forgets to lowercase the suffix.
GetFileTypeCaseSensitive(file_path, supported_extensions) ==
    FirstTypeWith(PathSuffix(file_path), supported_extensions, 1)

\* MediaFile._get_file_type
GetFileType(file_path, supported_extensions) ==
    FirstTypeWith(StrLower(PathSuffix(file_path)), supported_extensions, 1)

\* Longest path classified.
MaxPathLen == 4
PathChars == {"m", "M", "v", ".", "/"}
ClassifyPaths == UNION {[1..n -> PathChars] : n \in 1..MaxPathLen}

\* Registries: a default one, one narrowed to the selected extensions (as
\* _run_organization_process builds it), and one with an extension listed
\* under two types.
Registries ==
    { << [type |-> "audio", exts |-> {<<".", "m">>, <<".", "m", "v">>}],
         [type |-> "video", exts |-> {<<".", "v">>}] >>,
      << [type |-> "audio", exts |-> {}],
         [type |-> "video", exts |-> {<<".", "v">>}] >>,
      << [type |-> "audio", exts |-> {<<".", "m">>}],
         [type |-> "video", exts |-> {<<".", "m">>, <<".", "v">>}] >> }

InitClassify ==
    /\ impl = "gui" /\ InitEngine /\ InitRuns
    /\ lib \in [op : {"classify"}, pc : {"new"}, file_path : ClassifyPaths,
                supported_extensions : Registries, file_type : {""},
                other_path : {<<>>}, other_type : {""}]

\* MediaFile(file_path, supported_extensions): self.file_type = self._get_file_type()
MediaFileNew ==
    /\ lib.op = "classify" /\ lib.pc = "new"
    /\ lib' = [lib EXCEPT !.pc = "typed",
                          !.file_type = GetFileType(lib.file_path, lib.supported_extensions)]
    /\ UNCHANGED programVars

\* A second MediaFile over the same registry, for a path that differs from
\* the first in letter case only.
MediaFileNewRecased ==
    /\ lib.op = "classify" /\ lib.pc = "typed"
    /\ \E q \in ClassifyPaths :
        /\ q # lib.file_path
        /\ StrLower(q) = StrLower(lib.file_path)
        /\ lib' = [lib EXCEPT !.pc = "both", !.other_path = q,
                              !.other_type = GetFileType(q, lib.supported_extensions)]
    /\ UNCHANGED programVars

NextClassify == MediaFileNew \/ MediaFileNewRecased

SpecClassify == InitClassify /\ [][NextClassify]_vars

\* The types whose extension list holds the lowercased suffix of the path.
ClaimingTypes ==
    {lib.supported_extensions[i].type :
        i \in {j \in 1..Len(lib.supported_extensions) :
                  StrLower(PathSuffix(lib.file_path)) \in lib.supported_extensions[j].exts}}

\* C11: classification is total and case-insensitive: the type returned is a
\* type whose extension list holds the path's lowercased extension, it is
\* "unknown" when no list holds it, and two paths that differ in letter case
\* only get the same type.
C11_ClassifyCaseInsensitiveTotal ==
    lib.op = "classify" /\ lib.pc # "new" =>
        /\ ClaimingTypes = {} => lib.file_type = "unknown"
        /\ ClaimingTypes # {} => lib.file_type \in ClaimingTypes
        /\ lib.pc = "both" => lib.other_type = lib.file_type

\* "m.M" is audio, and so is its recasing "M.m".
C11_Witness ==
    /\ lib.op = "classify" /\ lib.pc = "both"
    /\ lib.file_path = <<"m", ".", "M">>
    /\ lib.other_path = <<"M", ".", "m">>
    /\ lib.file_type = "audio"
    /\ lib.other_type = "audio"

(***************************************************************************)
(* media_file.py: MediaFile.get_formatted_path(template)                   *)
(***************************************************************************)

StrUnknown == <<"U", "n", "k", "n", "o", "w", "n">>
KeyArtist == <<"a", "r", "t", "i", "s", "t">>
KeyFilename == <<"f", "i", "l", "e", "n", "a", "m", "e">>
KeyExtension == <<"e", "x", "t", "e", "n", "s", "i", "o", "n">>

\* Python's None as a metadata value.
NoneValue == <<"<None>">>

\* The characters the sanitizing re.sub replaces: [<>:"/\\|?*]
ReservedChars == {"<", ">", ":", "\"", "/", "\\", "|", "?", "*"}

\* re.findall(r"\{([^{}]+)\}", s) from position i on: the names of the
\* non-overlapping {name} tokens, left to right.
RECURSIVE Placeholders(_, _)
Placeholders(s, i) ==
    IF i > Len(s) THEN <<>>
    ELSE IF s[i] # "{" THEN Placeholders(s, i + 1)
    ELSE LET js == {j \in (i + 1)..Len(s) : s[j] \in {"{", "}"}}
         IN  IF js = {} THEN <<>>
             ELSE LET j == CHOOSE x \in js : \A y \in js : x <= y
                  IN  IF s[j] = "}" /\ j > i + 1
                          THEN <<SubSeq(s, i + 1, j - 1)>> \o Placeholders(s, j + 1)
                          ELSE Placeholders(s, i + 1)

\* str.find(old), 1-based; 0 when old does not occur.
IndexOf(s, old) ==
    LET ks == {k \in 1..(Len(s) - Len(old) + 1) : SubSeq(s, k, k + Len(old) - 1) = old}
    IN  IF ks = {} THEN 0 ELSE CHOOSE k \in ks : \A y \in ks : k <= y

\* str.replace(old, new): every non-overlapping occurrence, left to right.
RECURSIVE StrReplace(_, _, _)
StrReplace(s, old, new) ==
    LET k == IndexOf(s, old)
    IN  IF k = 0 THEN s
        ELSE SubSeq(s, 1, k - 1) \o new \o StrReplace(SubSeq(s, k + Len(old), Len(s)), old, new)

\* str.strip()
RECURSIVE StrStrip(_)
StrStrip(s) ==
    IF s = <<>> THEN s
    ELSE IF s[1] = " " THEN StrStrip(Tail(s))
    ELSE IF s[Len(s)] = " " THEN StrStrip(SubSeq(s, 1, Len(s) - 1))
    ELSE s

\* A sanitizer whose character class lacks the colon.
SanitizeForgetsColon(value) ==
    [i \in 1..Len(value) |-> IF value[i] \in ReservedChars \ {":"} THEN "_" ELSE value[i]]

\* re.sub(r'[<>:"/\\|?*]', "_", value_str)
Sanitize(value) ==
    [i \in 1..Len(value) |-> IF value[i] \in ReservedChars THEN "_" ELSE value[i]]

\* What a placeholder is replaced by: "Unknown" for a key that is absent or
\* whose value is None, blank or "Unknown", the sanitized value otherwise.
Replacement(metadata_lower, placeholder) ==
    LET key == StrLower(placeholder) IN
    IF key \notin DOMAIN metadata_lower THEN StrUnknown
    ELSE LET value == metadata_lower[key] IN
         IF value = NoneValue \/ StrStrip(value) = <<>> \/ StrStrip(value) = StrUnknown
             THEN StrUnknown
             ELSE Sanitize(value)

\* The loop over the placeholders found in the template.
RECURSIVE SubstituteFrom(_, _, _, _)
SubstituteFrom(formatted, placeholders, i, metadata_lower) ==
    IF i > Len(placeholders) THEN formatted
    ELSE SubstituteFrom(
            StrReplace(formatted, <<"{">> \o placeholders[i] \o <<"}">>,
                       Replacement(metadata_lower, placeholders[i])),
            placeholders, i + 1, metadata_lower)

\* re.sub(r"//+", "/", s): a slash that follows a slash is dropped.
RECURSIVE CollapseSlashes(_)
CollapseSlashes(s) ==
    IF Len(s) < 2 THEN s
    ELSE IF s[1] = "/" /\ s[2] = "/" THEN CollapseSlashes(Tail(s))
    ELSE <<s[1]>> \o CollapseSlashes(Tail(s))

\* re.sub(r"\.$", "_", s)
TrailingDotReplaced(s) ==
    IF s # <<>> /\ s[Len(s)] = "." THEN [s EXCEPT ![Len(s)] = "_"] ELSE s

\* {k.lower(): v for k, v in self.metadata.items()}
MetadataLower(metadata) ==
    [k \in {StrLower(x) : x \in DOMAIN metadata} |->
        metadata[CHOOSE x \in DOMAIN metadata : StrLower(x) = k]]

\* MediaFile.get_formatted_path(template)
GetFormattedPath(tmpl, metadata) ==
    TrailingDotReplaced(CollapseSlashes(
        SubstituteFrom(tmpl, Placeholders(tmpl, 1), 1, MetadataLower(metadata))))

\* The pieces templates are put together from, and how many at most.
MaxPieces == 3
Pieces == {<<"{", "a", "r", "t", "i", "s", "t", "}">>, <<"{", "f", "i", "l", "e", "n", "a", "m", "e", "}">>, <<"{", "e", "x", "t", "e", "n", "s", "i", "o", "n", "}">>,
           <<"/">>, <<".">>, <<"{">>, <<"}">>, <<"x">>}

RECURSIVE Concat(_)
Concat(ps) == IF ps = <<>> THEN <<>> ELSE Head(ps) \o Concat(Tail(ps))

Templates == UNION {{Concat(ps) : ps \in [1..n -> Pieces]} : n \in 1..MaxPieces}

\* extract_metadata stores the file name, extension included, under
\* "filename" and the extension without its dot under "extension".
BaseMetadata == (KeyFilename :> <<"c", "l", "i", "p", ".", "m", "p", "4">>) @@ (KeyExtension :> <<"m", "p", "4">>)

\* Values of the artist tag: None, blank, "Unknown", reserved characters,
\* braces, a trailing dot, a plain value.
ArtistValues == {NoneValue, <<" ">>, StrUnknown, <<"A", "/", "C", ":">>, <<"{", "x", "}">>, <<"v", ".">>, <<"o", "k">>}

Metadatas == {BaseMetadata} \cup {BaseMetadata @@ (KeyArtist :> v) : v \in ArtistValues}

\* The exclude_unknown keyword as the caller passes it: archimedius_gui.py
\* always passes it, a plain call omits it.
ExcludeUnknownArgs == {"omitted", "True", "False"}

InitRender ==
    /\ impl = "gui" /\ InitEngine /\ InitRuns
    /\ lib \in [op : {"render"}, pc : {"call"}, template : Templates, metadata : Metadatas,
                exclude_unknown : ExcludeUnknownArgs, raised : {FALSE}, ret : {<<>>}]

\* The signature is get_formatted_path(self, template): a call that passes
\* the keyword exclude_unknown raises TypeError before the body runs.
AcceptsCall(exclude_unknown) == exclude_unknown = "omitted"

\* media_file.get_formatted_path(template[, exclude_unknown=...])
GetFormattedPathCall ==
    /\ lib.op = "render" /\ lib.pc = "call"
    /\ lib' = IF AcceptsCall(lib.exclude_unknown)
                  THEN [lib EXCEPT !.pc = "returned",
                                   !.ret = GetFormattedPath(lib.template, lib.metadata)]
                  ELSE [lib EXCEPT !.pc = "returned", !.raised = TRUE]
    /\ UNCHANGED programVars

NextRender == GetFormattedPathCall

SpecRender == InitRender /\ [][NextRender]_vars

(***************************************************************************)
(* Claims about rendering (under SpecRender)                               *)
(***************************************************************************)

\* The call returned a path.
Rendered == lib.op = "render" /\ lib.pc = "returned" /\ ~lib.raised

CountChar(s, c) == Cardinality({i \in 1..Len(s) : s[i] = c})

\* The path segments of a rendered path.
Segments(s) == SplitOn(s, "/")
LastSegment(s) == Segments(s)[Len(Segments(s))]

EndsWith(s, suffix) ==
    Len(s) >= Len(suffix) /\ SubSeq(s, Len(s) - Len(suffix) + 1, Len(s)) = suffix

\* The names of the tokens of the template under study, lowercased.
TemplateTokens == {StrLower(Placeholders(lib.template, 1)[i]) :
                      i \in 1..Len(Placeholders(lib.template, 1))}

\* C12: the rendered path contains no raw '{' or '}' character.
C12_NoRawBraces ==
    Rendered => \A i \in 1..Len(lib.ret) : lib.ret[i] \notin {"{", "}"}

\* C13: every substituted value is sanitized: for a template whose only
\* reserved character is the separator '/', the rendered path holds none of
\* < > : " \ | ? * and no more separators than the template has, whatever
\* the values hold.
C13_ValuesSanitized ==
    Rendered /\ (\A i \in 1..Len(lib.template) : lib.template[i] \notin ReservedChars \ {"/"}) =>
        /\ \A i \in 1..Len(lib.ret) : lib.ret[i] \notin ReservedChars \ {"/"}
        /\ CountChar(lib.ret, "/") <= CountChar(lib.template, "/")

\* "{artist}/{filename}" with artist "A/C:" renders to "A_C_/clip.mp4".
C13_Witness ==
    /\ Rendered
    /\ lib.template = <<"{", "a", "r", "t", "i", "s", "t", "}", "/", "{", "f", "i", "l", "e", "n", "a", "m", "e", "}">>
    /\ KeyArtist \in DOMAIN lib.metadata
    /\ lib.metadata[KeyArtist] = <<"A", "/", "C", ":">>
    /\ lib.ret = <<"A", "_", "C", "_", "/", "c", "l", "i", "p", ".", "m", "p", "4">>

\* C14: with excludeUnknown = true the call returns a path none of whose
\* segments is literally "Unknown", and never an empty one.
C14_ExcludeUnknownLeavesNoUnknownSegment ==
    lib.op = "render" /\ lib.pc = "returned" /\ lib.exclude_unknown = "True" =>
        /\ ~lib.raised
        /\ lib.ret # <<>>
        /\ \A i \in 1..Len(Segments(lib.ret)) : Segments(lib.ret)[i] # StrUnknown

\* C15: the final component of every rendered path carries the original
\* extension exactly once, and is the original file name when the template
\* has no {filename} token.
C15_FilenameGuarantee ==
    Rendered =>
        LET ext == <<".">> \o lib.metadata[KeyExtension]
            last == LastSegment(lib.ret)
        IN  /\ EndsWith(last, ext)
            /\ ~EndsWith(last, ext \o ext)
            /\ KeyFilename \notin TemplateTokens => last = lib.metadata[KeyFilename]

(***************************************************************************)
(* The scanner: the two rglob passes of _run_organization_process          *)
(* (archimedius_gui.py) and of MediaOrganizer.find_media_files             *)
(* (media_organizer.py), with the destination-inside-source check          *)
(***************************************************************************)

\* A path is the sequence of its components, a component a str; an absolute
\* path starts with the root component "/".
RootC == <<"/">>
IsAbsolute(p) == p # <<>> /\ p[1] = RootC

\* The directory tree of the study: the working directory /w, the source
\* root /w/s with a file a, a directory o and a file o/b, a sibling /w/so,
\* a directory /w/t, and a symbolic link /w/l to /w/s/o.
Cwd == <<RootC, <<"w">>>>
LinkPath == Cwd \o <<<<"l">>>>
LinkTarget == Cwd \o <<<<"s">>, <<"o">>>>

\* What source_path.rglob("*") yields, relative to the source root, in
\* order, and whether each entry is a file.
TreeEntries == << [rel |-> <<<<"a">>>>, is_file |-> TRUE],
                  [rel |-> <<<<"o">>>>, is_file |-> FALSE],
                  [rel |-> <<<<"o">>, <<"b">>>>, is_file |-> TRUE] >>

\* The source and output directories as the caller may spell them.
SourceArgs == {Cwd \o <<<<"s">>>>, <<<<"s">>>>}
OutputArgs == {Cwd \o <<<<"s">>, <<"o">>>>, <<<<"s">>, <<"o">>>>, LinkPath,
               Cwd \o <<<<"s">>>>, <<<<"s">>>>, Cwd \o <<<<"s", "o">>>>, Cwd \o <<<<"t">>>>}

\* PurePath.is_relative_to / relative_to: a comparison of components.
IsRelativeTo(p, q) == Len(q) <= Len(p) /\ SubSeq(p, 1, Len(q)) = q

\* Path.resolve(): absolute, symbolic links followed.
Resolve(p) ==
    LET abs == IF IsAbsolute(p) THEN p ELSE Cwd \o p
    IN  IF IsRelativeTo(abs, LinkPath)
            THEN LinkTarget \o SubSeq(abs, Len(LinkPath) + 1, Len(abs))
            ELSE abs

\* str(path)
RECURSIVE JoinComponents(_)
JoinComponents(cs) ==
    IF cs = <<>> THEN <<>>
    ELSE IF Len(cs) = 1 THEN cs[1]
    ELSE cs[1] \o <<"/">> \o JoinComponents(Tail(cs))
PathStr(p) == IF IsAbsolute(p) THEN <<"/">> \o JoinComponents(Tail(p)) ELSE JoinComponents(p)

\* str.startswith
StrStartsWith(s, prefix) == Len(prefix) <= Len(s) /\ SubSeq(s, 1, Len(prefix)) = prefix

\* is_dest_in_source: _run_organization_process wants a true subdirectory
\* (abs_output != abs_source and abs_output.relative_to(abs_source));
\* find_media_files tests str(abs_output).startswith(str(abs_source)).
IsDestInSource(program, source, output) ==
    IF program = "gui"
        THEN Resolve(output) # Resolve(source) /\ IsRelativeTo(Resolve(output), Resolve(source))
        ELSE StrStartsWith(PathStr(Resolve(output)), PathStr(Resolve(source)))

\* The body of both loops up to the count / append: the entry is skipped
\* when the flag is set, it is a file, and it is relative to the output
\* directory as spelled or equals output / rel_path.
Skipped(is_dest_in_source, source, output, entry) ==
    LET file_path == source \o entry.rel
        dest_path == output \o entry.rel
    IN  /\ is_dest_in_source
        /\ entry.is_file
        /\ IsRelativeTo(file_path, output) \/ file_path = dest_path

\* The entry passes: it is a file (with a selected extension) that was not skipped.
Taken(is_dest_in_source, source, output, entry) ==
    ~Skipped(is_dest_in_source, source, output, entry) /\ entry.is_file

InitScan ==
    /\ impl = "gui" /\ InitEngine /\ InitRuns
    /\ lib \in [op : {"scan"}, program : {"gui", "legacy"}, pc : {"roots"},
                source : SourceArgs, output : OutputArgs, is_dest_in_source : {FALSE},
                idx : {1}, counted : {<<>>}, found : {<<>>}]

\* The check of the directory relationship.
ScanRoots ==
    /\ lib.op = "scan" /\ lib.pc = "roots"
    /\ lib' = [lib EXCEPT !.pc = "count",
                  !.is_dest_in_source = IsDestInSource(lib.program, lib.source, lib.output)]
    /\ UNCHANGED programVars

\* One iteration of the count pass.
ScanCount ==
    /\ lib.op = "scan" /\ lib.pc = "count"
    /\ LET entry == TreeEntries[lib.idx]
           after == IF Taken(lib.is_dest_in_source, lib.source, lib.output, entry)
                        THEN [lib EXCEPT !.counted = Append(@, lib.source \o entry.rel)]
                        ELSE lib
       IN  lib' = IF lib.idx = Len(TreeEntries)
                      THEN [after EXCEPT !.pc = "collect", !.idx = 1]
                      ELSE [after EXCEPT !.idx = @ + 1]
    /\ UNCHANGED programVars

\* One iteration of the enumeration pass.
ScanCollect ==
    /\ lib.op = "scan" /\ lib.pc = "collect"
    /\ LET entry == TreeEntries[lib.idx]
           after == IF Taken(lib.is_dest_in_source, lib.source, lib.output, entry)
                        THEN [lib EXCEPT !.found = Append(@, lib.source \o entry.rel)]
                        ELSE lib
       IN  lib' = IF lib.idx = Len(TreeEntries)
                      THEN [after EXCEPT !.pc = "done", !.idx = 1]
                      ELSE [after EXCEPT !.idx = @ + 1]
    /\ UNCHANGED programVars

NextScan == ScanRoots \/ ScanCount \/ ScanCollect

SpecScan == InitScan /\ [][NextScan]_vars

\* The file is physically located under the destination root.
UnderDestination(file_path) == IsRelativeTo(Resolve(file_path), Resolve(lib.output))

\* C16: when the resolved destination root is the resolved source root or a
\* descendant of it, no file located under the destination root is counted
\* or enumerated.
C16_DestinationExcludedFromScan ==
    /\ lib.op = "scan" /\ lib.pc = "done"
    /\ IsRelativeTo(Resolve(lib.output), Resolve(lib.source))
    => /\ \A i \in 1..Len(lib.counted) : ~UnderDestination(lib.counted[i])
       /\ \A i \in 1..Len(lib.found) : ~UnderDestination(lib.found[i])

(***************************************************************************)
(* The bounded preview pass: _generate_preview_thread and                  *)
(* _update_preview_results (archimedius_gui.py)                            *)
(***************************************************************************)

\* "if processed >= 100:  # Limit to 100 files for preview"
SampleLimit == 100

MaxTree == 103

\* The sizes of the source trees of the study: a few entries, and around the limit.
TreeSizes == {n \in 0..MaxTree : n < 3 \/ n > SampleLimit - 3}

\* Entry i of the walk is a file with a selected extension, unless every
\* junk-th entry is something else.
JunkPeriods == {0, 3}
IsSelectedFile(i, junk) == junk = 0 \/ i % junk # 0

\* The body of the per-file try succeeds on file i, unless the rendering of
\* every failing-th file raises (1: of every file).
FailingPeriods == {0, 1, 7}
PreviewSucceeds(i, failing) == failing = 0 \/ i % failing # 0

\* A sampling loop that never breaks.
SampleNeverFull(processed) == FALSE

\* "if processed >= 100: break"
SampleFull(processed) == processed >= SampleLimit

InitAnalyze ==
    /\ impl = "gui" /\ InitEngine /\ InitRuns
    /\ lib \in [op : {"analyze"}, pc : {"count"}, nfiles : TreeSizes, junk : JunkPeriods,
                failing : FailingPeriods, idx : {1}, total_files : {0}, preview_files : {<<>>},
                processed : {0}, preview_data : {<<>>}, count : {0}, shown : {<<>>},
                stop_requested : {FALSE}]

\* One iteration of the first pass, or its end.
PreviewCount ==
    /\ lib.op = "analyze" /\ lib.pc = "count"
    /\ lib' = IF lib.idx > lib.nfiles
                  THEN [lib EXCEPT !.pc = "sample", !.idx = 1]
                  ELSE [lib EXCEPT !.idx = @ + 1,
                            !.total_files = IF IsSelectedFile(lib.idx, lib.junk) THEN @ + 1 ELSE @]
    /\ UNCHANGED programVars

\* One iteration of the second pass, its break, or its end.
PreviewSample ==
    /\ lib.op = "analyze" /\ lib.pc = "sample"
    /\ lib' = IF lib.idx > lib.nfiles
                  THEN [lib EXCEPT !.pc = "render", !.idx = 1]
                  ELSE IF ~IsSelectedFile(lib.idx, lib.junk)
                  THEN [lib EXCEPT !.idx = @ + 1]
                  ELSE IF SampleFull(lib.processed + 1)
                  THEN [lib EXCEPT !.pc = "render", !.idx = 1,
                            !.preview_files = Append(@, lib.idx), !.processed = @ + 1]
                  ELSE [lib EXCEPT !.idx = @ + 1,
                            !.preview_files = Append(@, lib.idx), !.processed = @ + 1]
    /\ UNCHANGED programVars

\* One iteration of "for i, file_path in enumerate(preview_files)", or its
\* end: the call of _update_preview_results(preview_data, processed), which
\* shows every record unselected and the count in the status line.
PreviewRender ==
    /\ lib.op = "analyze" /\ lib.pc = "render"
    /\ lib' = IF lib.idx > Len(lib.preview_files)
                  THEN [lib EXCEPT !.pc = "shown", !.idx = 1,
                            !.shown = lib.preview_data, !.count = lib.processed]
                  ELSE [lib EXCEPT !.idx = @ + 1,
                            !.preview_data =
                                IF PreviewSucceeds(lib.preview_files[lib.idx], lib.failing)
                                    THEN Append(@, lib.preview_files[lib.idx]) ELSE @]
    /\ UNCHANGED programVars

\* Archimedius.stop() while the pass is scanning: the flag is set; neither
\* loop of the pass reads it.
PreviewStop ==
    /\ lib.op = "analyze" /\ lib.pc \in {"count", "sample"}
    /\ ~lib.stop_requested
    /\ lib' = [lib EXCEPT !.stop_requested = StopRequestedAfterStop]
    /\ UNCHANGED programVars

NextAnalyze == PreviewCount \/ PreviewSample \/ PreviewRender \/ PreviewStop

SpecAnalyze == InitAnalyze /\ [][NextAnalyze]_vars

\* The files of the tree with a selected extension.
MatchingFiles == {i \in 1..lib.nfiles : IsSelectedFile(i, lib.junk)}

ExtensionVars == [audio |-> {<<".", "m">>}, ebook |-> {<<".", "e">>, <<".", "p">>}]
FilterTypes == DOMAIN ExtensionVars
FilterExtensions == UNION {ExtensionVars[t] : t \in FilterTypes}

\* The matching files of the source tree in walk order, as preview records
\* (display_source, display_dest, full_path).
TreeRecords == << <<"a.m", "A/a.m", <<"/", "a", ".", "m">>>>,
                  <<"b.M", "B/b.M", <<"/", "b", ".", "M">>>>,
                  <<"d.e", "D/d.e", <<"/", "d", ".", "e">>>>,
                  <<"f.p", "F/f.p", <<"/", "f", ".", "p">>>> >>

\* The extension of the source of a record, as the scan compares it:
\* file_path.suffix.lower()
SourceExtension(record) == StrLower(PathSuffix(record[3]))

\* A filter that inserts each kept record in front of the others.
RECURSIVE FilterRecordsPrepending(_, _)
FilterRecordsPrepending(records, selected_extensions) ==
    IF records = <<>> THEN <<>>
    ELSE LET rest == FilterRecordsPrepending(Tail(records), selected_extensions)
         IN  IF SourceExtension(Head(records)) \in selected_extensions
                 THEN rest \o <<Head(records)>> ELSE rest

\* filter(fullRecords, selectedExtensions): one pass over the cached
\* records, keeping those whose source extension is selected.
RECURSIVE FilterRecords(_, _)
FilterRecords(records, selected_extensions) ==
    IF records = <<>> THEN <<>>
    ELSE LET rest == FilterRecords(Tail(records), selected_extensions)
         IN  IF SourceExtension(Head(records)) \in selected_extensions
                 THEN <<Head(records)>> \o rest ELSE rest

\* A filter that reads the rows on display.
FilterSourceVisible(l) == l.visible

\* What the filter reads: the cache.
FilterSource(l) == l.fullRecords

\* The previews an analyze pass can produce with the given selection: the
\* matching files of some tree, in walk order.
RECURSIVE SubSequences(_)
SubSequences(s) ==
    IF s = <<>> THEN {<<>>}
    ELSE LET rest == SubSequences(Tail(s))
         IN  rest \cup {<<Head(s)>> \o r : r \in rest}
PreviewDatas(selected_extensions) ==
    {FilterRecords(d, selected_extensions) : d \in SubSequences(TreeRecords)}

\* A record of one filter call: the selection, the rows it displayed, and
\* whether a later filter call displayed other rows.
NoSnapshot == [sel |-> {}, vis |-> <<"none">>, departed |-> FALSE]

\* _get_selected_extensions
SelectedExtensions(l) == l.extension_vars

\* all(var.get() for var in self.extension_vars[file_type].values())
AllSelected(selected, file_type) == ExtensionVars[file_type] \subseteq selected

InitFilter ==
    /\ impl = "gui" /\ InitEngine /\ InitRuns
    /\ lib \in [op : {"filter"}, last : {"init"}, auto_preview_enabled : BOOLEAN,
                extension_vars : {FilterExtensions}, all_var : {[t \in FilterTypes |-> TRUE]},
                fullRecords : {<<>>}, totalCount : {0}, visible : {<<>>},
                timer : {FALSE}, calls : {<<>>}, snapshot : {NoSnapshot}]

\* _clear_preview: the rows of the tree are deleted, and nothing else.
ClearedPreview(l) == [l EXCEPT !.visible = <<>>]

\* _update_preview_results(preview_data, count): the rows are replaced by
\* the records; the cache keeps the records and the count.
StoredCache(l, preview_data, count) ==
    [l EXCEPT !.fullRecords = preview_data, !.totalCount = count, !.snapshot = NoSnapshot]
UpdatedPreviewResults(l, preview_data, count) ==
    [StoredCache(l, preview_data, count) EXCEPT !.visible = preview_data]

\* _generate_preview and its thread, as one step: the preview is cleared;
\* with no extension selected the pass returns early, otherwise its results
\* are posted.
GeneratedPreviews(l) ==
    IF SelectedExtensions(l) = {}
        THEN {ClearedPreview(l)}
        ELSE {UpdatedPreviewResults(ClearedPreview(l), d, Len(d)) :
                  d \in PreviewDatas(SelectedExtensions(l))}

\* The Analyze button.
PreviewRequested ==
    /\ lib.op = "filter"
    /\ \E l \in GeneratedPreviews(lib) : lib' = [l EXCEPT !.last = "analyze", !.calls = <<>>]
    /\ UNCHANGED programVars

\* The timer of _auto_generate_preview fires.
PreviewTimerFires ==
    /\ lib.op = "filter" /\ lib.timer
    /\ \E l \in GeneratedPreviews(lib) :
           lib' = [l EXCEPT !.last = "analyze", !.calls = <<>>, !.timer = FALSE]
    /\ UNCHANGED programVars

\* _auto_generate_preview: the pending timer is cancelled and a new one set.
AutoGeneratePreview(l) == IF l.auto_preview_enabled THEN [l EXCEPT !.timer = TRUE] ELSE l

\* _browse_source, _browse_output: a directory is chosen; the preview is
\* cleared and the timer set.
BrowseDirectory ==
    /\ lib.op = "filter"
    /\ lib' = [AutoGeneratePreview(ClearedPreview(lib)) EXCEPT !.last = "clear",
                   !.calls = <<"_clear_preview", "_save_settings", "_auto_generate_preview">>]
    /\ UNCHANGED programVars

\* _filter_preview: the rows are replaced by the filtered cache.
FilterPreview ==
    /\ lib.op = "filter"
    /\ LET vis == FilterRecords(FilterSource(lib), SelectedExtensions(lib))
       IN  \E snap \in {[lib.snapshot EXCEPT !.departed = @ \/ (lib.snapshot # NoSnapshot /\ vis # lib.snapshot.vis)],
                        [sel |-> SelectedExtensions(lib), vis |-> vis, departed |-> FALSE]} :
               lib' = [lib EXCEPT !.last = "filter", !.calls = <<>>, !.visible = vis,
                           !.snapshot = snap]
    /\ UNCHANGED programVars

\* The "All" check box of a file type is clicked: _toggle_all_extensions.
ToggleAllExtensions ==
    /\ lib.op = "filter"
    /\ \E file_type \in FilterTypes :
           LET value == ~lib.all_var[file_type]
               flipped == IF value THEN lib.extension_vars \cup ExtensionVars[file_type]
                       ELSE lib.extension_vars \ ExtensionVars[file_type]
           IN  lib' = [AutoGeneratePreview(lib) EXCEPT !.last = "toggle_all",
                           !.all_var[file_type] = value, !.extension_vars = flipped,
                           !.calls = <<"_save_settings", "_auto_generate_preview">>]
    /\ UNCHANGED programVars

\* The check box of an extension is clicked: _update_extension_selection.
UpdateExtensionSelection ==
    /\ lib.op = "filter"
    /\ \E ext \in FilterExtensions :
           LET flipped == IF ext \in lib.extension_vars THEN lib.extension_vars \ {ext}
                       ELSE lib.extension_vars \cup {ext}
           IN  lib' = [AutoGeneratePreview(lib) EXCEPT !.last = "toggle_one",
                           !.extension_vars = flipped,
                           !.all_var = [t \in FilterTypes |-> AllSelected(flipped, t)],
                           !.calls = <<"_save_settings", "_auto_generate_preview">>]
    /\ UNCHANGED programVars

NextFilter ==
    \/ PreviewRequested \/ PreviewTimerFires \/ FilterPreview \/ BrowseDirectory
    \/ ToggleAllExtensions \/ UpdateExtensionSelection

SpecFilter == InitFilter /\ [][NextFilter]_vars

(***************************************************************************)
(* Properties of the filter and of the selection handlers                  *)
(***************************************************************************)

\* The step is a call of the filter.
FilterCalled == lib.op = "filter" /\ lib'.last = "filter"

\* The positions of the records of the cache whose source extension is selected.
KeptPositions(records, selected_extensions) ==
    {i \in 1..Len(records) : SourceExtension(records[i]) \in selected_extensions}

SelectionChanged ==
    /\ lib.op = "filter" /\ lib'.last \in {"toggle_all", "toggle_one"}
    /\ lib'.extension_vars # lib.extension_vars

\* C20: a change of the selection makes exactly one filter call, which
\* replaces the displayed rows at once, and arms no new analyze pass.
C20_SelectionChangeFiltersOnce ==
    [][SelectionChanged =>
        /\ Cardinality({k \in DOMAIN lib'.calls : lib'.calls[k] = "_filter_preview"}) = 1
        /\ lib'.visible = FilterRecords(lib'.fullRecords, lib'.extension_vars)
        /\ \A k \in DOMAIN lib'.calls : lib'.calls[k] # "_auto_generate_preview"
        /\ lib'.timer = lib.timer]_vars

\* C21: clearing the preview empties the cache, its count and the rows on
\* display, and a filter call made on the cleared cache displays nothing.
C21_ClearResetsCache ==
    [][/\ lib.op = "filter" /\ lib'.last = "clear"
          => lib'.fullRecords = <<>> /\ lib'.totalCount = 0 /\ lib'.visible = <<>>
       /\ lib.op = "filter" /\ lib.last = "clear" /\ lib'.last = "filter"
          => lib'.visible = <<>>]_vars

(***************************************************************************)
(* media_file.py: MediaFile.__init__ and extract_metadata                  *)
(***************************************************************************)

\* Path(p).stem: the name without its suffix.
PathStem(p) == SubSeq(PathName(p), 1, Len(PathName(p)) - Len(PathSuffix(p)))

\* The registry of the study: one extension per category.
ExtractExtensions ==
    << [type |-> "audio", exts |-> {<<".", "m">>}],
       [type |-> "video", exts |-> {<<".", "v">>}],
       [type |-> "image", exts |-> {<<".", "i">>}],
       [type |-> "ebook", exts |-> {<<".", "e">>}] >>

\* The files constructed: one per category in upper and lower case, in a
\* directory, with an unregistered extension, without one, with two dots
\* and with a leading dot only.
ExtractPaths ==
    { <<"T", ".", "M">>, <<"t", ".", "m">>, <<"c", ".", "v">>, <<"d", "/", "c", ".", "V">>,
      <<"p", ".", "i">>, <<"b", ".", "e">>, <<"n", ".", "x">>, <<"n">>,
      <<"a", ".", "b", ".", "E">>, <<".", "m">>, <<"P", ".", "I">> }

\* How the category extractor ends: it returns ("ok"); an error of the
\* parsing library is caught by the extractor's own handler ("caught"); or,
\* for a video without MediaInfo, file_path.stat() raises outside any
\* handler of the extractor ("raises").
ExtractorOutcomes(file_type) ==
    IF file_type = "unknown" THEN {"none"}
    ELSE IF file_type = "video" THEN {"ok", "caught", "raises"}
    ELSE {"ok", "caught"}

\* The keys every extractor sets before it reads the file: audio, video and
\* ebook a title equal to the stem, image none.
ExtractorDefaults(file_type, file_path) ==
    IF file_type \in {"audio", "video", "ebook"}
        THEN [k \in {"title"} |-> PathStem(file_path)]
        ELSE [k \in {} |-> <<>>]

\* self.metadata["filename"] = self.file_path.name
\* self.metadata["extension"] = self.file_path.suffix.lower()[1:]
FileInformation(file_path) ==
    LET suffix == StrLower(PathSuffix(file_path))
    IN  [k \in {"filename", "extension"} |->
            IF k = "filename" THEN PathName(file_path)
            ELSE IF suffix = <<>> THEN <<>> ELSE Tail(suffix)]

\* size and the four creation date keys, from file_path.stat().
StatInformation ==
    [k \in {"size", "creation_date", "creation_year", "creation_month",
            "creation_month_name"} |-> <<"s", "t", "a", "t">>]

InitExtract ==
    /\ impl = "gui" /\ InitEngine /\ InitRuns
    /\ lib \in [op : {"extract"}, pc : {"new"}, file_path : ExtractPaths, file_type : {""},
                extractor : {""}, stat : {"ok", "raises"}, metadata : {<<>>}]

\* MediaFile.__init__ up to self.file_type = self._get_file_type()
ExtractNew ==
    /\ lib.op = "extract" /\ lib.pc = "new"
    /\ lib' = [lib EXCEPT !.pc = "category",
                          !.file_type = GetFileType(lib.file_path, ExtractExtensions)]
    /\ UNCHANGED programVars

\* extract_metadata: the call of the category's extractor.
ExtractCategory ==
    /\ lib.op = "extract" /\ lib.pc = "category"
    /\ \E outcome \in ExtractorOutcomes(lib.file_type) :
           lib' = [lib EXCEPT !.extractor = outcome,
                       !.pc = IF outcome = "raises" THEN "except" ELSE "info",
                       !.metadata = ExtractorDefaults(lib.file_type, lib.file_path)]
    /\ UNCHANGED programVars

\* extract_metadata: the file information; stat() raises for a file that
\* cannot be read.
ExtractFileInformation ==
    /\ lib.op = "extract" /\ lib.pc = "info"
    /\ lib' = IF lib.stat = "raises"
                  THEN [lib EXCEPT !.pc = "except",
                            !.metadata = FileInformation(lib.file_path) @@ lib.metadata]
                  ELSE [lib EXCEPT !.pc = "done",
                            !.metadata = StatInformation @@ FileInformation(lib.file_path)
                                             @@ lib.metadata]
    /\ UNCHANGED programVars

\* extract_metadata: the except clause logs the error.
ExtractExcept ==
    /\ lib.op = "extract" /\ lib.pc = "except"
    /\ lib' = [lib EXCEPT !.pc = "done"]
    /\ UNCHANGED programVars

NextExtract == ExtractNew \/ ExtractCategory \/ ExtractFileInformation \/ ExtractExcept

SpecExtract == InitExtract /\ [][NextExtract]_vars

\* C22: the record of every file, one whose extractor fails or that cannot
\* be read included, holds the universal attributes, with filename the stem
\* and filename_with_extension the name, and a title that is the stem when
\* the extractor found none.
C22_UniversalAttributesAlways ==
    lib.op = "extract" /\ lib.pc = "done"
    => /\ {"filename", "filename_with_extension", "extension", "size", "creation_date",
           "creation_year", "creation_month", "creation_month_name", "title"}
              \subseteq DOMAIN lib.metadata
       /\ lib.metadata["filename"] = PathStem(lib.file_path)
       /\ lib.metadata["filename_with_extension"] = PathName(lib.file_path)
       /\ lib.extractor # "ok" => lib.metadata["title"] = PathStem(lib.file_path)

(***************************************************************************)
(* The transfer of one entry: os.makedirs(dest_path.parent), then          *)
(* shutil.copy2 or shutil.move, as _run_organization_process,              *)
(* _process_selected_files_thread and organize_files perform it            *)
(***************************************************************************)

\* The paths of the study: two source files of the same name in different
\* directories, and two destinations in directories that do not exist yet.
SourcePaths == {"s/a", "s/q/a"}
TransferPaths == SourcePaths \cup {"o/x/a", "o/y/a"}

\* dest_path.parent and its ancestors.
ParentOf(p) ==
    CASE p = "s/a" -> "s" [] p = "s/q/a" -> "s/q" [] p = "o/x/a" -> "o/x" [] p = "o/y/a" -> "o/y"
AncestorsOf(p) ==
    CASE p = "s/a" -> {"s"} [] p = "s/q/a" -> {"s", "s/q"}
      [] p = "o/x/a" -> {"o", "o/x"} [] p = "o/y/a" -> {"o", "o/y"}

\* The destination an entry can render to: either new path, or, with the
\* output root equal to the source root, the path the file already has.
DestinationsOf(s) == {"o/x/a", "o/y/a", s}

\* The (source, destination) lists a run processes: one or both sources.
TransferEntries ==
    {<<[src |-> s, dst |-> d]>> : s \in SourcePaths, d \in TransferPaths} \cup
    {<<[src |-> s1, dst |-> d1], [src |-> s2, dst |-> d2]>> :
        s1 \in SourcePaths, s2 \in SourcePaths, d1 \in TransferPaths, d2 \in TransferPaths}

\* No file at the path.
NoFile == "none"

\* os.makedirs(dest_path.parent, exist_ok=True)
DirsAfterMakedirs(dirs, dest_path) == dirs \cup AncestorsOf(dest_path)

\* A move that leaves the source in place.
FilesAfterTransferKeepsSource(files, mode, file_path, dest_path) ==
    [files EXCEPT ![dest_path] = files[file_path]]

\* shutil.copy2(file_path, dest_path) writes the content of the source to
\* the destination path, replacing a file that is there; shutil.move
\* renames the source to the destination path, replacing a file that is
\* there, and renaming a file to its own path changes nothing.
FilesAfterTransfer(files, mode, file_path, dest_path) ==
    IF mode = "copy" \/ file_path = dest_path
        THEN [files EXCEPT ![dest_path] = files[file_path]]
        ELSE [files EXCEPT ![dest_path] = files[file_path], ![file_path] = NoFile]

\* How the transfer can end: copy2 raises SameFileError for a destination
\* that is the source, both raise for a source that does not exist, and
\* either can fail on an error of the file system.
TransferOutcomes(files, mode, file_path, dest_path) ==
    IF files[file_path] = NoFile \/ (mode = "copy" /\ file_path = dest_path)
        THEN {"failed"} ELSE {"ok", "failed"}

InitTransfer ==
    /\ impl = "gui" /\ InitEngine /\ InitRuns
    /\ lib \in [op : {"transfer"}, pc : {"makedirs"}, mode : {"copy", "move"},
                entries : {e \in TransferEntries :
                              /\ \A i \in DOMAIN e : e[i].dst \in DestinationsOf(e[i].src)
                              /\ Len(e) = 2 => e[1].src # e[2].src},
                idx : {1},
                files : {[p \in TransferPaths |-> IF p \in SourcePaths THEN p ELSE NoFile]},
                dirs : {{"s", "s/q"}}, attempts : {<<>>}]

\* The end of one iteration of the per-file loop.
AfterEntry(l, outcome) ==
    [l EXCEPT !.attempts = Append(@, [src |-> l.entries[l.idx].src,
                                       dst |-> l.entries[l.idx].dst, outcome |-> outcome]),
              !.idx = IF l.idx = Len(l.entries) THEN @ ELSE @ + 1,
              !.pc = IF l.idx = Len(l.entries) THEN "done" ELSE "makedirs"]

\* os.makedirs(dest_path.parent, exist_ok=True); an error ends the attempt
\* in the per-file except clause.
TransferMakedirs ==
    /\ lib.op = "transfer" /\ lib.pc = "makedirs"
    /\ \/ lib' = [lib EXCEPT !.pc = "transfer",
                      !.dirs = DirsAfterMakedirs(@, lib.entries[lib.idx].dst)]
       \/ lib' = AfterEntry(lib, "failed")
    /\ UNCHANGED programVars

\* shutil.copy2 / shutil.move
TransferFile ==
    /\ lib.op = "transfer" /\ lib.pc = "transfer"
    /\ LET e == lib.entries[lib.idx] IN
       \E outcome \in TransferOutcomes(lib.files, lib.mode, e.src, e.dst) :
           lib' = IF outcome = "ok"
                      THEN [AfterEntry(lib, outcome) EXCEPT
                               !.files = FilesAfterTransfer(lib.files, lib.mode, e.src, e.dst)]
                      ELSE AfterEntry(lib, outcome)
    /\ UNCHANGED programVars

NextTransfer == TransferMakedirs \/ TransferFile

SpecTransfer == InitTransfer /\ [][NextTransfer]_vars

\* The step transfers the current entry without an error.
TransferSucceeded ==
    /\ lib.op = "transfer" /\ lib.pc = "transfer"
    /\ Len(lib'.attempts) = Len(lib.attempts) + 1
    /\ lib'.attempts[Len(lib'.attempts)].outcome = "ok"

C30_MoveLosesNoFile ==
    lib.op = "transfer" /\ lib.pc = "done" /\ lib.mode = "move"
    => \A i \in DOMAIN lib.attempts :
           \/ lib.files[lib.attempts[i].src] = lib.attempts[i].src
           \/ lib.files[lib.attempts[i].dst] = lib.attempts[i].src

\* C24: a scan loop of the analyze pass, like those of an organize run,
\* reads the cancellation flag between files: a step the loop takes once the
\* flag is set leaves the loop and examines no further file.
C24_ScanLoopsPollCancellation ==
    [][lib.op = "analyze" /\ lib.stop_requested /\ lib.pc \in {"count", "sample"}
       => /\ lib'.pc # lib.pc
          /\ lib'.total_files = lib.total_files
          /\ lib'.preview_files = lib.preview_files]_vars

(***************************************************************************)
(* Claims about the flags and the progress events of the runs (under Spec) *)
(***************************************************************************)

\* C25: while the worker of an organize or process-selected run executes,
\* organizer.is_running is true.
C25_RunningWhileWorkerExecutes ==
    \A r \in Runs :
        runs[r].kind \in {"organize", "selected"} /\ Active(r) => is_running

(***************************************************************************)
(* _run_organization_process when the output root is the source root: the  *)
(* process pass walks the tree the run is writing into                     *)
(***************************************************************************)

MaxWalkFiles == 3

\* What the process pass has yet to yield: files that were in the tree when
\* the run began ("original") and files the run itself has put there ("placed").
InitialWalk(n) == [i \in 1..n |-> "original"]

\* The attempt on a placed file renders to the path the file has: copy2
\* raises SameFileError, move renames the file onto itself.
WalkOutcomes(mode, entry) ==
    IF entry = "placed" /\ mode = "copy" THEN {"failed"} ELSE AttemptOutcomes

\* The transfer of an original file puts a file into the tree being walked
\* when the output root is the source root.
PlacesFileInTree(root, entry, outcome) ==
    root = "equal" /\ entry = "original" /\ outcome = "ok"

InitSelfWalk ==
    /\ impl = "gui" /\ InitEngine /\ InitRuns
    /\ lib \in [op : {"selfwalk"}, pc : {"count"}, mode : {"copy", "move"},
                root : {"outside", "equal"}, nfiles : 1..MaxWalkFiles,
                pending : {<<>>}, total : {0}, processed : {0}, calls : {<<>>}]

\* The count pass.
SelfWalkCount ==
    /\ lib.op = "selfwalk" /\ lib.pc = "count"
    /\ lib' = [lib EXCEPT !.pc = "walk", !.total = lib.nfiles,
                          !.pending = InitialWalk(lib.nfiles)]
    /\ UNCHANGED programVars

\* One iteration of the process pass. rglob lists a directory when the walk
\* reaches it, so a file placed during the walk may or may not be yielded later.
SelfWalkStep ==
    /\ lib.op = "selfwalk" /\ lib.pc = "walk" /\ lib.pending # <<>>
    /\ \E outcome \in WalkOutcomes(lib.mode, Head(lib.pending)), yielded \in BOOLEAN :
        /\ yielded => PlacesFileInTree(lib.root, Head(lib.pending), outcome)
        /\ lib' = [lib EXCEPT
              !.pending = Tail(@) \o (IF yielded THEN <<"placed">> ELSE <<>>),
              !.processed = @ + 1,
              !.calls = Append(@, ProgressCall(lib.processed + 1, lib.total, Head(lib.pending)))]
    /\ UNCHANGED programVars

\* After the loop: the terminal call.
SelfWalkComplete ==
    /\ lib.op = "selfwalk" /\ lib.pc = "walk" /\ lib.pending = <<>>
    /\ lib' = [lib EXCEPT !.pc = "done",
                          !.calls = Append(@, ProgressCall(lib.processed, lib.total, Complete))]
    /\ UNCHANGED programVars

NextSelfWalk == SelfWalkCount \/ SelfWalkStep \/ SelfWalkComplete

SpecSelfWalk == InitSelfWalk /\ [][NextSelfWalk]_vars

\* C26: in every onProgress call of a run, processedCount <= totalCount,
\* also when the output root is the source root.
C26_ProcessedNeverExceedsTotal ==
    lib.op = "selfwalk" => \A k \in 1..Len(lib.calls) : lib.calls[k].p <= lib.calls[k].t

(***************************************************************************)
(* Further claims about the runs (under Spec)                              *)
(***************************************************************************)

\* C27: the per-file progress calls of one run carry processedCount 1, 2,
\* ..., n with no value skipped, and the "Complete" call is the last call of
\* the run and carries processedCount = n.
C27_ProgressInOrder ==
    \A r \in Runs :
        \A k \in 1..Len(progress[r]) :
            IF progress[r][k].f = Complete
                THEN k = Len(progress[r]) /\ progress[r][k].p = k - 1
                ELSE progress[r][k].p = k

\* A step in which a run is started.
RunStarts == nruns' = nruns + 1

\* A run that reads the stop flag as set was in progress when stop() set it.
CancelledOnlyWhileActive ==
    \A r \in Runs : Active(r) /\ stop_requested => runs[r].cancel

\* C28: each new run starts with stop_requested = false and files_processed
\* = 0, and a run reads the stop flag as set only if the cancellation was
\* requested while that run was in progress: a cancellation requested during
\* or after an earlier run never cancels or shortens a run started later.
C28_NewRunStartsClean ==
    /\ [][RunStarts => (~stop_requested' /\ files_processed' = 0)]_vars
    /\ []CancelledOnlyWhileActive

\* A run was started after an earlier run had been cancelled and had ended,
\* and is going through its files with the flag clear.
C28_Witness ==
    \E r1, r2 \in Runs :
        /\ r1 < r2
        /\ runs[r1].pc = "done" /\ runs[r1].cancel
        /\ Active(r2) /\ ~runs[r2].cancel /\ ~stop_requested
        /\ attempts[r2] # <<>>

\* The entries of preview_files that are rows of the preview tree.
IsVisibleRow(i) == \E k \in 1..Len(preview_tree) : preview_tree[k] = i

\* C29: preview_files describes exactly the rows visible in the preview:
\* every entry of the map is a row of the tree, so after the preview is
\* cleared no entry, selected or not, remains.
C29_SelectionMatchesVisibleRows ==
    /\ \A i \in 1..Len(preview_files) : IsVisibleRow(i)
    /\ \A k \in 1..Len(preview_tree) : preview_tree[k] \in 1..Len(preview_files)

====
